---- MODULE Spec2Model ----
(***************************************************************************)
(* ftag: a file-tagging utility.  The tag store is one SQLite table        *)
(* tags(id INTEGER PRIMARY KEY, path TEXT NOT NULL, tags TEXT) in the file  *)
(* .ftag.db of the working directory; the tags column holds the JSON of a   *)
(* Taglist {"Tags": [...]}.  Every library call of src/ftag.rs is one       *)
(* action; the filesystem (files appearing and disappearing) is the         *)
(* environment.                                                             *)
(***************************************************************************)
EXTENDS Integers, Sequences, FiniteSets, TLC

VARIABLES
    dbExists,   \* get_db_path().exists(): the file .ftag.db is present
    fs,         \* the paths that exist on disk (path.exists())
    rows,       \* the table tags: a set of records [id, path, tags]
    last,       \* the last call: [op, args, result]
    expected,   \* history: per path, the fold of the tags added and removed
    repeat,     \* history: set when an add_tags repeats the call before it
    deleted,    \* history: the rows the last call deleted
    inserted,   \* history: the rows the last call inserted
    stale,      \* history: per path, what was stored when its file was deleted
    rn,         \* the rename command in progress: its arguments and position
    procs       \* the concurrent invocations: position and locals of each

vars == <<dbExists, fs, rows, last, expected, repeat, deleted, inserted,
          stale, rn, procs>>

\* what the library calls of one process, taken one at a time, leave alone
aux == <<stale, rn, procs>>

\* ------------------------------------------------------------------ bounds

Paths == {"x", "y"}
Tags == {"red", "blue"}

\* longest Vec<String> handed to add_tags / remove_tags
MaxArgs == 2
\* largest rowid the table hands out
MaxId == 3

\* ------------------------------------------------------------------ values

Ok(v) == [ok |-> TRUE, err |-> "none", val |-> v]
Err(e) == [ok |-> FALSE, err |-> e, val |-> {}]

NotFound == "IoError(NotFound)"
AlreadyExists == "IoError(AlreadyExists)"
NoDatabaseError == "NoDatabaseError"
QueryReturnedNoRows == "DatabaseError(QueryReturnedNoRows)"

\* the Vec<String> arguments: sequences of tags, duplicates allowed
TagVecs == UNION {[1..n -> Tags] : n \in 0..MaxArgs}

Range(s) == {s[i] : i \in DOMAIN s}

Max(S) == CHOOSE m \in S : \A n \in S : n <= m
Min(S) == CHOOSE m \in S : \A n \in S : m <= n

\* ------------------------------------------------------------------ JSON

\* serde_json::to_string(&Taglist): the array lists the HashSet in its
\* iteration order, which the hasher's random seed decides: any order of the
\* set, each tag once.
to_string(tags) ==
    {s \in [1..Cardinality(tags) -> tags] : Range(s) = tags}

\* serde_json::from_str::<Taglist>: the array collected into a HashSet.
from_str(json) == Range(json)

\* ------------------------------------------------------------------ filesystem

\* path.exists()
path_exists(path) == path \in fs

\* ------------------------------------------------------------------ table

\* SQLite's rowid for an INSERT that names none: one more than the largest.
NextRowId(tbl) == IF tbl = {} THEN 1 ELSE Max({r.id : r \in tbl}) + 1

\* the rows of a table in scan (rowid) order
RECURSIVE ScanOrder(_)
ScanOrder(tbl) ==
    IF tbl = {} THEN <<>>
    ELSE LET first == CHOOSE r \in tbl : r.id = Min({q.id : q \in tbl})
         IN <<first>> \o ScanOrder(tbl \ {first})

\* SELECT id, tags FROM tags WHERE path = ?, query_row: the first match.
query_db_for_path(path) ==
    IF ~dbExists THEN Err(NoDatabaseError)
    ELSE LET found == {r \in rows : r.path = path}
         IN IF found = {} THEN Err(QueryReturnedNoRows)
            ELSE LET r == CHOOSE q \in found : q.id = Min({m.id : m \in found})
                 IN Ok(<<r.id, r.tags>>)

\* INSERT INTO tags(path, tags) VALUES (?, ?)
insert_row(path, serialized) ==
    rows \cup {[id |-> NextRowId(rows), path |-> path, tags |-> serialized]}

\* UPDATE tags SET tags= ? WHERE id = ?
update_row_no_where_clause(id, serialized) ==
    {[r EXCEPT !.tags = serialized] : r \in rows}

update_row(id, serialized) ==
    {IF r.id = id THEN [r EXCEPT !.tags = serialized] ELSE r : r \in rows}

\* [res, tbl]: the result and the table afterwards
update_row_always_insert(path, serialized) ==
    IF ~dbExists THEN [res |-> Err(NoDatabaseError), tbl |-> rows]
    ELSE [res |-> Ok({}),
          tbl |-> rows \cup {[id |-> NextRowId(rows), path |-> path,
                              tags |-> serialized]}]

update_row_no_where(path, serialized) ==
    IF ~dbExists THEN [res |-> Err(NoDatabaseError), tbl |-> rows]
    ELSE IF ~query_db_for_path(path).ok
         THEN [res |-> Ok({}),
               tbl |-> rows \cup {[id |-> NextRowId(rows), path |-> path,
                                   tags |-> serialized]}]
         ELSE [res |-> Ok({}),
               tbl |-> {[r EXCEPT !.tags = serialized] : r \in rows}]

update_row_no_db_check(path, serialized) ==
    IF ~query_db_for_path(path).ok
    THEN [res |-> Ok({}),
          tbl |-> rows \cup {[id |-> NextRowId(rows), path |-> path,
                              tags |-> serialized]}]
    ELSE [res |-> Ok({}),
          tbl |-> {IF r.id = query_db_for_path(path).val[1]
                   THEN [r EXCEPT !.tags = serialized] ELSE r : r \in rows}]

update_row_update_only(path, serialized) ==
    IF ~dbExists THEN [res |-> Err(NoDatabaseError), tbl |-> rows]
    ELSE LET query == query_db_for_path(path)
         IN [res |-> Ok({}),
             tbl |-> {IF query.ok /\ r.id = query.val[1]
                      THEN [r EXCEPT !.tags = serialized] ELSE r
                      : r \in rows}]

update_row_into_db(path, serialized) ==
    IF ~dbExists THEN [res |-> Err(NoDatabaseError), tbl |-> rows]
    ELSE LET query == query_db_for_path(path)
         IN IF ~query.ok
            THEN [res |-> Ok({}), tbl |-> insert_row(path, serialized)]
            ELSE [res |-> Ok({}), tbl |-> update_row(query.val[1], serialized)]

\* the write of update_row_into_db stays within the rowids of the model
WithinIds(path) ==
    (dbExists /\ ~query_db_for_path(path).ok) => NextRowId(rows) <= MaxId

\* ------------------------------------------------------------------ prune_db

\* the first pass: the paths of the rows whose file is gone, in scan order
RECURSIVE StalePaths(_)
StalePaths(scan) ==
    IF scan = <<>> THEN <<>>
    ELSE IF ~path_exists(Head(scan).path)
         THEN <<Head(scan).path>> \o StalePaths(Tail(scan))
         ELSE StalePaths(Tail(scan))

\* the second pass: DELETE FROM tags WHERE path = ?, once per collected name
RECURSIVE DeleteRows(_, _)
DeleteRows(tbl, names) ==
    IF names = <<>> THEN tbl
    ELSE DeleteRows({r \in tbl : r.path # Head(names)}, Tail(names))

\* [res, tbl]
prune_db_no_delete ==
    IF ~dbExists THEN [res |-> Err(NoDatabaseError), tbl |-> rows]
    ELSE [res |-> Ok({}), tbl |-> rows]

prune_db_delete_all ==
    IF ~dbExists THEN [res |-> Err(NoDatabaseError), tbl |-> rows]
    ELSE [res |-> Ok({}), tbl |-> {}]

prune_db ==
    IF ~dbExists THEN [res |-> Err(NoDatabaseError), tbl |-> rows]
    ELSE LET to_remove == StalePaths(ScanOrder(rows))
         IN [res |-> Ok({}), tbl |-> DeleteRows(rows, to_remove)]

\* ------------------------------------------------------------------ init_db

\* [res, exists, tbl]
init_db_no_check ==
    [res |-> Ok({}), exists |-> TRUE, tbl |-> {}]

init_db ==
    IF dbExists
    THEN [res |-> Err(AlreadyExists), exists |-> dbExists, tbl |-> rows]
    ELSE \* Connection::open creates the file, CREATE TABLE the empty table
         [res |-> Ok({}), exists |-> TRUE, tbl |-> {}]

\* ------------------------------------------------------------------ get_file_tags

get_file_tags_no_row_is_error(path) ==
    IF ~path_exists(path) THEN Err(NotFound)
    ELSE LET query == query_db_for_path(path)
         IN IF query.ok THEN Ok(from_str(query.val[2]))
            ELSE Err(query.err)

get_file_tags(path) ==
    IF ~path_exists(path) THEN Err(NotFound)
    ELSE LET query == query_db_for_path(path)
         IN IF query.ok THEN Ok(from_str(query.val[2]))
            ELSE Ok({})

\* ------------------------------------------------------------------ get_global_tags

\* one row's tags counted into tag_counts (a HashMap<String, u32>)
CountRow_insert_one(tag_counts, tagset) ==
    [tag \in DOMAIN tag_counts \cup tagset |->
        IF tag \in tagset THEN 1 ELSE tag_counts[tag]]

CountRow(tag_counts, tagset) ==
    [tag \in DOMAIN tag_counts \cup tagset |->
        IF tag \in tagset
        THEN IF tag \in DOMAIN tag_counts THEN tag_counts[tag] + 1 ELSE 1
        ELSE tag_counts[tag]]

RECURSIVE CountRows(_, _)
CountRows(tag_counts, scan) ==
    IF scan = <<>> THEN tag_counts
    ELSE CountRows(CountRow(tag_counts, from_str(Head(scan).tags)), Tail(scan))

\* [res, tbl]
get_global_tags ==
    IF ~dbExists THEN [res |-> Err(NoDatabaseError), tbl |-> rows]
    ELSE LET pruned == prune_db
         IN IF ~pruned.res.ok THEN pruned
            ELSE [res |-> Ok(CountRows(<<>>, ScanOrder(pruned.tbl))),
                  tbl |-> pruned.tbl]

\* ------------------------------------------------------------------ add_tags

\* for tag in add_tags { newtags.tags.insert(tag) }
RECURSIVE InsertAll(_, _)
InsertAll(set, vec) ==
    IF vec = <<>> THEN set
    ELSE InsertAll(set \cup {Head(vec)}, Tail(vec))

\* the tags of the row the lookup found, or none
Existing(query) == IF query.ok THEN from_str(query.val[2]) ELSE {}

\* the outcomes [res, tbl] of the call, one per serialization of newtags
add_tags_no_exists_check(path, tags) ==
    LET newtags == InsertAll(Existing(query_db_for_path(path)), tags)
    IN {LET upd == update_row_into_db(path, serialized)
        IN IF ~upd.res.ok THEN [res |-> upd.res, tbl |-> rows]
           ELSE [res |-> Ok(newtags), tbl |-> upd.tbl]
        : serialized \in to_string(newtags)}

add_tags(path, tags) ==
    IF ~path_exists(path) THEN {[res |-> Err(NotFound), tbl |-> rows]}
    ELSE LET newtags == InsertAll(Existing(query_db_for_path(path)), tags)
         IN {LET upd == update_row_into_db(path, serialized)
             IN IF ~upd.res.ok THEN [res |-> upd.res, tbl |-> rows]
                ELSE [res |-> Ok(newtags), tbl |-> upd.tbl]
             : serialized \in to_string(newtags)}

\* ------------------------------------------------------------------ remove_tags

\* remove_tags.contains(&tag)
contains(vec, tag) == \E i \in DOMAIN vec : vec[i] = tag

Retain_removed(set, vec) == {tag \in set : contains(vec, tag)}

Retain(set, vec) == {tag \in set : ~contains(vec, tag)}

remove_tags(path, tags) ==
    IF ~path_exists(path) THEN {[res |-> Err(NotFound), tbl |-> rows]}
    ELSE LET newtags == Retain(Existing(query_db_for_path(path)), tags)
         IN {LET upd == update_row_into_db(path, serialized)
             IN IF ~upd.res.ok THEN [res |-> upd.res, tbl |-> rows]
                ELSE [res |-> Ok(newtags), tbl |-> upd.tbl]
             : serialized \in to_string(newtags)}

\* ------------------------------------------------------------------ find_tags

Matches_exclude_any(tagset, find, exclude) ==
    /\ \A tag \in find : tag \in tagset
    /\ \E tag \in exclude : tag \notin tagset

\* find_tags_contained && exclude_tags_not_contained
Matches(tagset, find, exclude) ==
    /\ \A tag \in find : tag \in tagset
    /\ \A tag \in exclude : tag \notin tagset

RECURSIVE matching_files(_, _, _)
matching_files(scan, find, exclude) ==
    IF scan = <<>> THEN <<>>
    ELSE IF Matches(from_str(Head(scan).tags), find, exclude)
         THEN <<Head(scan).path>> \o matching_files(Tail(scan), find, exclude)
         ELSE matching_files(Tail(scan), find, exclude)

\* find and exclude are the HashSets built from the two Vec arguments
find_tags(find, exclude) ==
    IF ~dbExists THEN Err(NoDatabaseError)
    ELSE Ok(matching_files(ScanOrder(rows), find, exclude))

\* ------------------------------------------------------------------ state machine

NoRepeat == [twice |-> FALSE, first |-> {}, store |-> {}]

\* the table as the tagsets it stores
Store(tbl) == {[id |-> r.id, path |-> r.path, tagset |-> from_str(r.tags)] : r \in tbl}

\* the rows of table after whose rowid table before does not hold
NewRows(before, after) == {r \in after : r.id \notin {q.id : q \in before}}

Call(op, args, result) == [op |-> op, args |-> args, result |-> result]

NoStale == [phase |-> "none", hadRow |-> FALSE, tags |-> {}, listed |-> FALSE]

NoRename == [pc |-> "idle"]

Procs == {1, 2}

NoProc == [pc |-> "idle"]

Init ==
    /\ dbExists = FALSE
    /\ fs = {}
    /\ rows = {}
    /\ last = Call("none", <<>>, Ok({}))
    /\ expected = [p \in Paths |-> {}]
    /\ repeat = NoRepeat
    /\ deleted = {}
    /\ inserted = {}
    /\ stale = [p \in Paths |-> NoStale]
    /\ rn = NoRename
    /\ procs = [i \in Procs |-> NoProc]

\* the environment: a file appears on disk
CreateFile(path) ==
    /\ path \notin fs
    /\ fs' = fs \cup {path}
    /\ last' = Call("create_file", <<path>>, Ok({}))
    /\ repeat' = NoRepeat
    /\ deleted' = {}
    /\ inserted' = {}
    /\ UNCHANGED <<dbExists, rows, expected>>

\* the environment: a file is deleted from disk
DeleteFile(path) ==
    /\ path \in fs
    /\ fs' = fs \ {path}
    /\ last' = Call("delete_file", <<path>>, Ok({}))
    /\ repeat' = NoRepeat
    /\ deleted' = {}
    /\ inserted' = {}
    /\ UNCHANGED <<dbExists, rows, expected>>

InitDb ==
    LET call == init_db
    IN /\ dbExists' = call.exists
       /\ rows' = call.tbl
       /\ last' = Call("init_db", <<>>, call.res)
       /\ expected' = IF call.res.ok THEN [p \in Paths |-> {}] ELSE expected
       /\ repeat' = NoRepeat
       /\ deleted' = {}
       /\ inserted' = {}
       /\ UNCHANGED fs

GetFileTags(path) ==
    /\ last' = Call("get_file_tags", <<path>>, get_file_tags(path))
    /\ repeat' = NoRepeat
    /\ deleted' = {}
    /\ inserted' = {}
    /\ UNCHANGED <<dbExists, fs, rows, expected>>

GetGlobalTags ==
    LET call == get_global_tags
    IN /\ rows' = call.tbl
       /\ last' = Call("get_global_tags", <<>>, call.res)
       /\ expected' = [p \in Paths |->
               IF \E r \in call.tbl : r.path = p THEN expected[p]
               ELSE IF \E r \in rows : r.path = p THEN {} ELSE expected[p]]
       /\ repeat' = NoRepeat
       /\ deleted' = rows \ call.tbl
       /\ inserted' = {}
       /\ UNCHANGED <<dbExists, fs>>

AddTags(path, tags) ==
    /\ WithinIds(path)
    /\ \E call \in add_tags(path, tags) :
        /\ rows' = call.tbl
        /\ last' = Call("add_tags", <<path, tags>>, call.res)
        /\ expected' = IF call.res.ok
                       THEN [expected EXCEPT ![path] = @ \cup Range(tags)]
                       ELSE expected
        /\ repeat' = IF /\ call.res.ok
                        /\ last.op = "add_tags"
                        /\ last.args = <<path, tags>>
                        /\ last.result.ok
                     THEN [twice |-> TRUE, first |-> last.result.val,
                           store |-> Store(rows)]
                     ELSE NoRepeat
        /\ inserted' = NewRows(rows, call.tbl)
    /\ deleted' = {}
    /\ UNCHANGED <<dbExists, fs>>

RemoveTags(path, tags) ==
    /\ WithinIds(path)
    /\ \E call \in remove_tags(path, tags) :
        /\ rows' = call.tbl
        /\ last' = Call("remove_tags", <<path, tags>>, call.res)
        /\ expected' = IF call.res.ok
                       THEN [expected EXCEPT ![path] = @ \ Range(tags)]
                       ELSE expected
        /\ inserted' = NewRows(rows, call.tbl)
    /\ repeat' = NoRepeat
    /\ deleted' = {}
    /\ UNCHANGED <<dbExists, fs>>

FindTags(find, exclude) ==
    /\ last' = Call("find_tags", <<find, exclude>>, find_tags(find, exclude))
    /\ repeat' = NoRepeat
    /\ deleted' = {}
    /\ inserted' = {}
    /\ UNCHANGED <<dbExists, fs, rows, expected>>

Next ==
    \/ \E path \in Paths : CreateFile(path) /\ UNCHANGED aux
    \/ \E path \in Paths : DeleteFile(path) /\ UNCHANGED aux
    \/ InitDb /\ UNCHANGED aux
    \/ \E path \in Paths : GetFileTags(path) /\ UNCHANGED aux
    \/ GetGlobalTags /\ UNCHANGED aux
    \/ \E path \in Paths, tags \in TagVecs :
          RemoveTags(path, tags) /\ UNCHANGED aux
    \/ \E path \in Paths, tags \in TagVecs :
          AddTags(path, tags) /\ UNCHANGED aux
    \/ \E find \in SUBSET Tags, exclude \in SUBSET Tags :
          FindTags(find, exclude) /\ UNCHANGED aux

Spec == Init /\ [][Next]_vars

\* ------------------------------------------------------------------ properties

HasRow(tbl, path) == \E r \in tbl : r.path = path
HasEmptyRow(tbl, path) == \E r \in tbl : r.path = path /\ from_str(r.tags) = {}
Carries(path, tag) == \E r \in rows : r.path = path /\ tag \in from_str(r.tags)

\* C1: with the database initialized and the path on disk, get_file_tags(path)
\* is the set built by adding every added tag and taking away every removed
\* tag, in call order, since the path's row was last created; and every
\* successful add_tags / remove_tags returns that set.
C1_AddRemoveFold ==
    /\ \A p \in Paths :
          (dbExists /\ p \in fs) => get_file_tags(p) = Ok(expected[p])
    /\ (last.op \in {"add_tags", "remove_tags"} /\ last.result.ok)
          => last.result.val = expected[last.args[1]]

\* add("x", [red, blue]) then remove("x", [red]) has left exactly {blue}
C1_Witness ==
    /\ last = Call("remove_tags", <<"x", <<"red">>>>, Ok({"blue"}))
    /\ get_file_tags("x") = Ok({"blue"})
    /\ expected["x"] = {"blue"}

\* C2: an add_tags that repeats the successful add_tags right before it, same
\* path and same tags, returns the same tagset and leaves the same rows with
\* the same tagsets, the path's single row among them.
C2_AddIdempotent ==
    repeat.twice =>
        /\ last.result.ok
        /\ last.result.val = repeat.first
        /\ Store(rows) = repeat.store
        /\ Cardinality({r \in rows : r.path = last.args[1]}) = 1

C2_Witness ==
    /\ repeat.twice
    /\ last.op = "add_tags"
    /\ last.args = <<"x", <<"red", "blue">>>>
    /\ last.result.val = {"red", "blue"}

\* C3 as stated: a row exists for a path if and only if the path's stored
\* tagset is non-empty.
C3_RowIffTagged ==
    \A p \in Paths :
        HasRow(rows, p) <=> (\E tag \in Tags : Carries(p, tag))

\* C3 as amended: a path with a tag has a row; a row appears only through an
\* add_tags or remove_tags on its own path; and a row comes to hold the empty
\* tagset only through a remove_tags on its path or an add_tags of no tags.
C3_RowOnlyByWrite ==
    [][\A p \in Paths :
        /\ (\E tag \in Tags : Carries(p, tag))' => HasRow(rows', p)
        /\ (HasRow(rows', p) /\ ~HasRow(rows, p))
              => /\ last'.op \in {"add_tags", "remove_tags"}
                 /\ last'.args[1] = p
        /\ (HasEmptyRow(rows', p) /\ ~HasEmptyRow(rows, p))
              => /\ last'.op \in {"add_tags", "remove_tags"}
                 /\ last'.args[1] = p
                 /\ last'.op = "add_tags" => last'.args[2] = <<>>
      ]_vars

\* a remove_tags has left a row with the empty tagset
C3_Witness ==
    /\ last.op = "remove_tags"
    /\ last.result = Ok({})
    /\ HasEmptyRow(rows, last.args[1])

\* C4: a successful get_global_tags leaves no row whose path is not on disk,
\* and the mapping it returns counts only the rows whose path is on disk: a
\* tag is in it only if such a row carries it, with that many rows as count.
C4_PruneCorrect ==
    [][(last'.op = "get_global_tags" /\ last'.result.ok) =>
        /\ \A r \in rows' : r.path \in fs
        /\ \A tag \in DOMAIN last'.result.val :
              /\ \E r \in rows : r.path \in fs /\ tag \in from_str(r.tags)
              /\ last'.result.val[tag] = Cardinality(
                    {r \in rows : r.path \in fs /\ tag \in from_str(r.tags)})
      ]_vars

\* the listing dropped the row of a deleted file that carried a tag
C4_Witness ==
    /\ last.op = "get_global_tags"
    /\ last.result.ok
    /\ \E r \in deleted : r.path \notin fs /\ "red" \in from_str(r.tags)
    /\ "red" \notin DOMAIN last.result.val
    /\ rows # {}

\* C5: get_global_tags returns the mapping from each tag carried by a path on
\* disk to the number of distinct such paths, and holds no other tag.
C5_CountCorrect ==
    (last.op = "get_global_tags" /\ last.result.ok) =>
        last.result.val =
            [tag \in {t \in Tags : \E p \in fs : Carries(p, t)} |->
                Cardinality({p \in fs : Carries(p, tag)})]

\* red on both paths, blue on one, counted 2 and 1
C5_Witness ==
    /\ last.op = "get_global_tags"
    /\ last.result = Ok([tag \in {"red", "blue"} |->
                            IF tag = "red" THEN 2 ELSE 1])

\* C6: find_tags returns the path of every row whose tagset holds all of find
\* and none of exclude, once per such row, and no other path.
C6_FindCorrect ==
    (last.op = "find_tags" /\ last.result.ok) =>
        LET find == last.args[1]
            exclude == last.args[2]
            hits == {r \in rows : /\ find \subseteq from_str(r.tags)
                                  /\ from_str(r.tags) \cap exclude = {}}
        IN /\ Range(last.result.val) = {r.path : r \in hits}
           /\ Len(last.result.val) = Cardinality(hits)

\* find red, exclude blue: of two rows, one matches and one is excluded
C6_Witness ==
    /\ last.op = "find_tags"
    /\ last.args = <<{"red"}, {"blue"}>>
    /\ last.result = Ok(<<"x">>)
    /\ \E r \in rows : r.path = "y" /\ from_str(r.tags) = {"red", "blue"}

\* C7: add_tags and remove_tags on a path that is not on disk fail with
\* IoError(NotFound) and leave the table and the database file as they were.
C7_NotFoundNoChange ==
    [][(last'.op \in {"add_tags", "remove_tags"} /\ last'.args[1] \notin fs) =>
        /\ last'.result = Err(NotFound)
        /\ rows' = rows
        /\ dbExists' = dbExists
      ]_vars

C7_Witness ==
    /\ last.op = "add_tags"
    /\ last.args[1] \notin fs
    /\ last.result = Err(NotFound)
    /\ dbExists
    /\ HasRow(rows, last.args[1])

\* C8: init_db with no database file succeeds and leaves an empty table;
\* init_db with a database file fails with IoError(AlreadyExists) and changes
\* nothing.
C8_InitOnce ==
    [][last'.op = "init_db" =>
        IF dbExists
        THEN /\ last'.result = Err(AlreadyExists)
             /\ rows' = rows
             /\ dbExists'
             /\ fs' = fs
        ELSE /\ last'.result.ok
             /\ dbExists'
             /\ rows' = {}
      ]_vars

\* a second init_db was refused and the rows are still there
C8_Witness ==
    /\ last.op = "init_db"
    /\ last.result = Err(AlreadyExists)
    /\ \E tag \in Tags : Carries("x", tag)

\* C9: get_file_tags on a path that is on disk fails with NoDatabaseError when
\* there is no database file.
C9_GetFileTagsNoDatabase ==
    (last.op = "get_file_tags" /\ last.args[1] \in fs /\ ~dbExists)
        => last.result = Err(NoDatabaseError)

\* C10: with no database file, add_tags and remove_tags on a path that is on
\* disk, get_global_tags and find_tags fail with NoDatabaseError and create
\* neither the file nor a row.
C10_NoDatabase ==
    [][(/\ ~dbExists
        /\ last'.op \in {"add_tags", "remove_tags", "get_global_tags", "find_tags"}
        /\ last'.op \in {"add_tags", "remove_tags"} => last'.args[1] \in fs) =>
        /\ last'.result = Err(NoDatabaseError)
        /\ ~dbExists'
        /\ rows' = rows
        /\ rows' = {}
      ]_vars

C10_Witness ==
    /\ ~dbExists
    /\ last.op = "add_tags"
    /\ last.args[1] \in fs
    /\ last.result = Err(NoDatabaseError)
    /\ rows = {}

\* C11: with the database initialized, get_file_tags on a path that is on disk
\* returns the empty set when the path has no row, and otherwise the tagset
\* its row stores.
C11_GetFileTags ==
    (last.op = "get_file_tags" /\ dbExists /\ last.args[1] \in fs) =>
        LET found == {r \in rows : r.path = last.args[1]}
        IN IF found = {} THEN last.result = Ok({})
           ELSE /\ last.result.ok
                /\ \A r \in found : last.result.val = from_str(r.tags)

\* the path is on disk, another path has a row, this one has none
C11_Witness ==
    /\ last = Call("get_file_tags", <<"x">>, Ok({}))
    /\ dbExists
    /\ "x" \in fs
    /\ ~HasRow(rows, "x")
    /\ \E tag \in Tags : Carries("y", tag)

\* C12: calls issued one at a time, with files created and deleted in
\* between, leave at most one row per path.
C12_OneRowPerPath ==
    \A p \in Paths : Cardinality({r \in rows : r.path = p}) <= 1

\* both paths have their row, and the last call wrote to a row that existed
C12_Witness ==
    /\ last.op = "add_tags"
    /\ last.result.ok
    /\ inserted = {}
    /\ \A p \in Paths : Cardinality({r \in rows : r.path = p}) = 1

\* C13: with the database initialized, remove_tags on a path that is on disk
\* succeeds whatever the tags; the set it returns is the stored one without
\* the tags asked for; on a path with no row it returns the empty set and
\* inserts one row for the path, holding the empty tagset.
C13_RemoveUntagged ==
    [][(last'.op = "remove_tags" /\ dbExists /\ last'.args[1] \in fs) =>
        LET p == last'.args[1]
            stored == UNION {from_str(r.tags) : r \in {q \in rows : q.path = p}}
        IN /\ last'.result = Ok(stored \ Range(last'.args[2]))
           /\ ~HasRow(rows, p) =>
                /\ last'.result = Ok({})
                /\ \E r \in rows' :
                      /\ r \notin rows
                      /\ rows' = rows \cup {r}
                      /\ r.path = p
                      /\ from_str(r.tags) = {}
      ]_vars

\* a remove_tags of a tag on an untagged file has just inserted its row
C13_Witness ==
    /\ last = Call("remove_tags", <<"x", <<"red">>>>, Ok({}))
    /\ \E r \in inserted : r.path = "x" /\ r.tags = <<>>
    /\ Cardinality(rows) = 2

\* C14: a successful add_tags or remove_tags leaves every row of another path
\* as it was, keeps the rowid of the path's row, and adds one row when the
\* path had none and none otherwise.
C14_OneRowWritten ==
    [][(last'.op \in {"add_tags", "remove_tags"} /\ last'.result.ok) =>
        LET p == last'.args[1]
        IN /\ {r \in rows' : r.path # p} = {r \in rows : r.path # p}
           /\ Cardinality(rows') =
                 Cardinality(rows) + (IF HasRow(rows, p) THEN 0 ELSE 1)
           /\ HasRow(rows, p) =>
                 {r.id : r \in {q \in rows' : q.path = p}}
                    = {r.id : r \in {q \in rows : q.path = p}}
           /\ Cardinality({r \in rows' : r.path = p}) = 1
      ]_vars

\* an add_tags changed the row of x while y kept its tagged row
C14_Witness ==
    /\ last.op = "add_tags"
    /\ last.args[1] = "x"
    /\ last.result = Ok({"red", "blue"})
    /\ inserted = {}
    /\ \E r \in rows : r.path = "y" /\ from_str(r.tags) = {"blue"}

\* C15: a successful get_global_tags deletes exactly the rows whose path is
\* not on disk and leaves the others as they were; a row disappears in no
\* other step.
C15_OnlyPruneDeletes ==
    [][/\ (last'.op = "get_global_tags" /\ last'.result.ok)
             => rows' = {r \in rows : r.path \in fs}
       /\ \A r \in rows :
             (~\E q \in rows' : q.id = r.id /\ q.path = r.path)
                => /\ last'.op = "get_global_tags"
                   /\ r.path \notin fs
      ]_vars

\* the listing deleted the row of an absent file and kept the other row
C15_Witness ==
    /\ last.op = "get_global_tags"
    /\ \E r \in deleted : r.path = "x" /\ r.path \notin fs
    /\ \E r \in rows : r.path = "y" /\ "y" \in fs

\* C17: get_file_tags and find_tags, failing or not, leave the table and the
\* database file as they were; get_global_tags only deletes rows, each of a
\* path that is not on disk, and the rows that stay keep their tagset.
C17_ReadOnly ==
    [][/\ last'.op \in {"get_file_tags", "find_tags"}
             => rows' = rows /\ dbExists' = dbExists
       /\ last'.op = "get_global_tags"
             => /\ rows' \subseteq rows
                /\ \A r \in rows \ rows' : r.path \notin fs
                /\ dbExists' = dbExists
      ]_vars

\* a get_file_tags that failed, on a table that holds a stale tagged row
C17_Witness ==
    /\ last.op = "get_file_tags"
    /\ last.result = Err(NotFound)
    /\ \E tag \in Tags : Carries(last.args[1], tag)

\* ------------------------------------------------------------------ stale rows

\* the tagset the rows of a path store
StoredTags(tbl, path) == UNION {from_str(r.tags) : r \in {q \in tbl : q.path = path}}

\* The history of deleted files, kept beside the step just taken: what a path
\* stored when its file was deleted, whether the file is back, and whether a
\* get_global_tags succeeded while it was away.  A write to the path ends it.
StaleObserve ==
    stale' = [p \in Paths |->
        IF last'.op = "delete_file" /\ last'.args[1] = p
        THEN [phase |-> "absent", hadRow |-> HasRow(rows, p),
              tags |-> StoredTags(rows, p), listed |-> FALSE]
        ELSE IF last'.op = "create_file" /\ last'.args[1] = p
                  /\ stale[p].phase = "absent"
        THEN [stale[p] EXCEPT !.phase = "back"]
        ELSE IF last'.op = "get_global_tags" /\ last'.result.ok
                  /\ stale[p].phase = "absent"
        THEN [stale[p] EXCEPT !.listed = TRUE]
        ELSE IF last'.op \in {"add_tags", "remove_tags"} /\ last'.result.ok
                  /\ last'.args[1] = p
        THEN NoStale
        ELSE stale[p]]

\* the calls that tag and untag one tag at a time
OneTag == {<<tag>> : tag \in Tags}

NextStale ==
    \/ \E path \in Paths :
          CreateFile(path) /\ StaleObserve /\ UNCHANGED <<rn, procs>>
    \/ \E path \in Paths :
          DeleteFile(path) /\ StaleObserve /\ UNCHANGED <<rn, procs>>
    \/ InitDb /\ StaleObserve /\ UNCHANGED <<rn, procs>>
    \/ \E path \in Paths :
          GetFileTags(path) /\ StaleObserve /\ UNCHANGED <<rn, procs>>
    \/ GetGlobalTags /\ StaleObserve /\ UNCHANGED <<rn, procs>>
    \/ \E path \in Paths, tags \in OneTag :
          RemoveTags(path, tags) /\ StaleObserve /\ UNCHANGED <<rn, procs>>
    \/ \E path \in Paths, tags \in OneTag :
          AddTags(path, tags) /\ StaleObserve /\ UNCHANGED <<rn, procs>>
    \/ \E find \in SUBSET Tags :
          FindTags(find, {}) /\ StaleObserve /\ UNCHANGED <<rn, procs>>

SpecStale == Init /\ [][NextStale]_vars

\* C16: from the deletion of a file until a get_global_tags succeeds while it
\* is away (or the path is written again), the path keeps what it stored:
\* find_tags returns it whenever its tagset matches, file on disk or not, and
\* once the file is back get_file_tags returns that tagset; if a
\* get_global_tags succeeded while the file was away, get_file_tags on the
\* file that is back returns the empty set.
C16_StaleUntilListing ==
    \A p \in Paths :
        stale[p].phase # "none" =>
            IF ~stale[p].listed
            THEN /\ HasRow(rows, p) = stale[p].hadRow
                 /\ StoredTags(rows, p) = stale[p].tags
                 /\ (stale[p].phase = "back" /\ dbExists)
                       => get_file_tags(p) = Ok(stale[p].tags)
                 /\ (/\ last.op = "find_tags"
                     /\ last.result.ok
                     /\ stale[p].hadRow
                     /\ last.args[1] \subseteq stale[p].tags
                     /\ last.args[2] \cap stale[p].tags = {})
                       => \E i \in DOMAIN last.result.val : last.result.val[i] = p
            ELSE /\ ~HasRow(rows, p)
                 /\ (stale[p].phase = "back" /\ dbExists)
                       => get_file_tags(p) = Ok({})

\* x was deleted and is back with no listing in between and still has its
\* tag; y was deleted, listed while away, is back and has lost its tags
C16_Witness ==
    /\ stale["x"] = [phase |-> "back", hadRow |-> TRUE, tags |-> {"red"},
                     listed |-> FALSE]
    /\ get_file_tags("x") = Ok({"red"})
    /\ stale["y"].phase = "back"
    /\ stale["y"].listed
    /\ stale["y"].tags = {"blue"}
    /\ last = Call("get_file_tags", <<"y">>, Ok({}))

\* ------------------------------------------------------------------ rename

\* tags.contains(&old_tag)
tag_found_always(tags, old_tag) == TRUE

tag_found(tags, old_tag) == old_tag \in tags

\* no rename is between two of its calls
RenameIdle == rn.pc \in {"idle", "done"}

\* Commands::Rename, first call: get_file_tags decides whether there is
\* anything to do.  store0 and tags0 keep the table and the path's tagset as
\* the command found them.
RenameStart(path, old_tag, new_tag) ==
    /\ RenameIdle
    /\ GetFileTags(path)
    /\ LET current_tags == get_file_tags(path)
       IN rn' = [pc |-> IF current_tags.ok /\ tag_found(current_tags.val, old_tag)
                        THEN "remove" ELSE "done",
                 path |-> path, old |-> old_tag, new |-> new_tag,
                 store0 |-> Store(rows), tags0 |-> StoredTags(rows, path),
                 wrote |-> FALSE]

\* remove_tags(&path, vec![old_tag]); an error is printed and the command goes on
RenameRemove ==
    /\ rn.pc = "remove"
    /\ RemoveTags(rn.path, <<rn.old>>)
    /\ rn' = [rn EXCEPT !.pc = "add", !.wrote = TRUE]

\* add_tags(&path, vec![new_tag])
RenameAdd ==
    /\ rn.pc = "add"
    /\ AddTags(rn.path, <<rn.new>>)
    /\ rn' = [rn EXCEPT !.pc = "list"]

\* the closing get_file_tags, whose tags are printed
RenameList ==
    /\ rn.pc = "list"
    /\ GetFileTags(rn.path)
    /\ rn' = [rn EXCEPT !.pc = "done"]

\* The commands run one at a time: the calls of a rename are not interleaved
\* with another command or with a change of the filesystem.
NextRename ==
    \/ \E path \in Paths :
          /\ RenameIdle
          /\ CreateFile(path)
          /\ rn' = NoRename
          /\ UNCHANGED <<stale, procs>>
    \/ /\ RenameIdle
       /\ InitDb
       /\ rn' = NoRename
       /\ UNCHANGED <<stale, procs>>
    \/ \E path \in Paths, tags \in OneTag :
          /\ RenameIdle
          /\ AddTags(path, tags)
          /\ rn' = NoRename
          /\ UNCHANGED <<stale, procs>>
    \/ \E path \in Paths, old_tag \in Tags, new_tag \in Tags :
          RenameStart(path, old_tag, new_tag) /\ UNCHANGED <<stale, procs>>
    \/ RenameRemove /\ UNCHANGED <<stale, procs>>
    \/ RenameAdd /\ UNCHANGED <<stale, procs>>
    \/ RenameList /\ UNCHANGED <<stale, procs>>

SpecRename == Init /\ [][NextRename]_vars

\* C19: a finished rename of a file on disk has left the path's stored tagset
\* at (S minus old) plus new when old was in the stored tagset S, the rows of
\* other paths as they were; when old was not in S it has written nothing:
\* the rows and their tagsets are what they were.
C19_Rename ==
    (rn.pc = "done" /\ rn.path \in fs) =>
        IF rn.old \in rn.tags0
        THEN /\ StoredTags(rows, rn.path) = (rn.tags0 \ {rn.old}) \cup {rn.new}
             /\ last.result = Ok((rn.tags0 \ {rn.old}) \cup {rn.new})
             /\ {r \in Store(rows) : r.path # rn.path}
                   = {r \in rn.store0 : r.path # rn.path}
             /\ rn.old = rn.new => Store(rows) = rn.store0
        ELSE /\ ~rn.wrote
             /\ Store(rows) = rn.store0

\* red of {red, blue} was renamed to blue: the path is left with {blue}
C19_Witness ==
    /\ rn.pc = "done"
    /\ rn.path = "x"
    /\ rn.old = "red"
    /\ rn.new = "blue"
    /\ rn.tags0 = {"red", "blue"}
    /\ rn.wrote
    /\ StoredTags(rows, "x") = {"blue"}

\* ------------------------------------------------------------------ two processes

\* the path both invocations work on, and another one that has a row
ConcPath == "x"
OtherPath == "y"

\* Two ftag processes start on a database that a single process has left:
\* initialized, both files on disk, the other path tagged, the path itself
\* with a row or without.  expected holds what the path stores at that point.
InitConc ==
    /\ dbExists = TRUE
    /\ fs = {ConcPath, OtherPath}
    /\ \E tbl \in {{[id |-> 1, path |-> OtherPath, tags |-> <<"blue">>]},
                   {[id |-> 1, path |-> OtherPath, tags |-> <<"blue">>],
                    [id |-> 2, path |-> ConcPath, tags |-> <<"red">>]}} :
          /\ rows = tbl
          /\ expected = [p \in Paths |-> StoredTags(tbl, p)]
    /\ last = Call("none", <<>>, Ok({}))
    /\ repeat = NoRepeat
    /\ deleted = {}
    /\ inserted = {}
    /\ stale = [p \in Paths |-> NoStale]
    /\ rn = NoRename
    /\ procs = [i \in Procs |-> NoProc]

\* add_tags / remove_tags up to the call of update_row_into_db: the check of
\* the path, the lookup, the new tagset and its JSON
ConcCall(i, op, path, tags) ==
    /\ procs[i].pc = "idle"
    /\ LET newtags == IF op = "add_tags"
                      THEN InsertAll(Existing(query_db_for_path(path)), tags)
                      ELSE Retain(Existing(query_db_for_path(path)), tags)
       IN \E serialized \in to_string(newtags) :
             procs' = [procs EXCEPT ![i] =
                 [pc |-> IF path_exists(path) THEN "update" ELSE "done",
                  op |-> op, path |-> path, tags |-> tags,
                  newtags |-> newtags, serialized |-> serialized,
                  query |-> Err("none"),
                  result |-> IF path_exists(path) THEN Ok({})
                             ELSE Err(NotFound)]]
    /\ UNCHANGED <<dbExists, fs, rows, last, expected, repeat, deleted,
                   inserted, stale, rn>>

\* update_row_into_db: the check of the database file and the second lookup
ConcLookup(i) ==
    /\ procs[i].pc = "update"
    /\ procs' = [procs EXCEPT ![i] =
           IF ~dbExists
           THEN [@ EXCEPT !.pc = "done", !.result = Err(NoDatabaseError)]
           ELSE [@ EXCEPT !.pc = "write",
                          !.query = query_db_for_path(procs[i].path)]]
    /\ UNCHANGED <<dbExists, fs, rows, last, expected, repeat, deleted,
                   inserted, stale, rn>>

\* update_row_into_db: the INSERT or the UPDATE the lookup decided on
ConcWrite(i) ==
    /\ procs[i].pc = "write"
    /\ ~procs[i].query.ok => NextRowId(rows) <= MaxId
    /\ rows' = IF ~procs[i].query.ok
               THEN insert_row(procs[i].path, procs[i].serialized)
               ELSE update_row(procs[i].query.val[1], procs[i].serialized)
    /\ inserted' = inserted \cup NewRows(rows, rows')
    /\ procs' = [procs EXCEPT ![i] =
           [@ EXCEPT !.pc = "done", !.result = Ok(procs[i].newtags)]]
    /\ UNCHANGED <<dbExists, fs, last, expected, repeat, deleted, stale, rn>>

NextConc ==
    \/ \E i \in Procs, op \in {"add_tags", "remove_tags"}, tags \in OneTag :
          ConcCall(i, op, ConcPath, tags)
    \/ \E i \in Procs : ConcLookup(i)
    \/ \E i \in Procs : ConcWrite(i)

SpecConc == InitConc /\ [][NextConc]_vars

\* what an invocation makes of a tagset
Effect(proc, tagset) ==
    IF proc.op = "add_tags" THEN tagset \cup Range(proc.tags)
    ELSE tagset \ Range(proc.tags)

\* C18: once two interleaved invocations on the same path have both returned,
\* the tagset get_file_tags reads back is that of the two in either order, or
\* that of one of them alone on what the path stored before (the other one
\* is lost); the path has one row, or two when it had none before; and the
\* rows of the other path are as they were.
C18_LostUpdate ==
    (\A i \in Procs : procs[i].pc = "done") =>
        LET before == expected[ConcPath]
            found == {r \in rows : r.path = ConcPath}
            hadRow == \E r \in found : r.id \notin {q.id : q \in inserted}
        IN /\ \A i \in Procs : procs[i].result.ok
           /\ get_file_tags(ConcPath).ok
           /\ get_file_tags(ConcPath).val \in
                 {Effect(procs[2], Effect(procs[1], before)),
                  Effect(procs[1], Effect(procs[2], before)),
                  Effect(procs[1], before),
                  Effect(procs[2], before)}
           /\ Cardinality(found) \in {1, 2}
           /\ Cardinality(found) = 2 => ~hadRow
           /\ {r \in rows : r.path # ConcPath}
                 = {[id |-> 1, path |-> OtherPath, tags |-> <<"blue">>]}

\* the path had no row; one invocation added red, the other blue; both
\* inserted: two rows for the path, and get_file_tags reads back red alone
C18_Witness ==
    /\ \A i \in Procs : procs[i].pc = "done" /\ procs[i].result.ok
    /\ procs[1].op = "add_tags" /\ procs[1].tags = <<"red">>
    /\ procs[2].op = "add_tags" /\ procs[2].tags = <<"blue">>
    /\ expected[ConcPath] = {}
    /\ Cardinality({r \in rows : r.path = ConcPath}) = 2
    /\ get_file_tags(ConcPath) = Ok({"red"})

\* the path had a row storing red; one invocation added blue, the other
\* removed red; the row is left with red and blue: the removal is lost
C18_WitnessOneRow ==
    /\ \A i \in Procs : procs[i].pc = "done" /\ procs[i].result.ok
    /\ procs[1].op = "add_tags" /\ procs[1].tags = <<"blue">>
    /\ procs[2].op = "remove_tags" /\ procs[2].tags = <<"red">>
    /\ expected[ConcPath] = {"red"}
    /\ Cardinality({r \in rows : r.path = ConcPath}) = 1
    /\ get_file_tags(ConcPath) = Ok({"red", "blue"})

====
